---- MODULE Spec2Model ----
(***************************************************************************)
(* Physical quantities (sympy.physics.unitsystems.quantities): the         *)
(* Quantity value type, its arithmetic protocol, unit conversion and the   *)
(* recursive simplifier qsimplify, as a state machine whose actions are    *)
(* the calls a client can make.                                            *)
(*                                                                         *)
(* Values are records tagged by `kind`:                                    *)
(*   num      exact rational n/d (d > 0); d = 0 encodes the non-finite     *)
(*            results of a division by zero: 0/0 is nan, 1/0 is zoo        *)
(*   sym      a symbolic leaf (Symbol)                                     *)
(*   str      a Python string                                              *)
(*   none     Python's None                                                *)
(*   list     the empty Python list []                                     *)
(*   unit     a Unit: dimension vector <<length, time>> and scale factor   *)
(*   quantity a Quantity: factor and unit                                  *)
(*   Add, Mul, Pow   expression nodes with their argument sequence         *)
(*   error    a raised exception, by kind                                  *)
(***************************************************************************)
EXTENDS Integers, Sequences, FiniteSets, TLC

VARIABLES op, self, other, result, steps

vars == <<op, self, other, result, steps>>

\* Longest chain of calls that feed on earlier results.
MaxSteps == 2

\* Largest numerator, denominator or dimension exponent of a value that is
\* still used as an operand of a further call.
MaxMag == 1000

-----------------------------------------------------------------------------
(* Scalars of the expression engine                                        *)

Abs(i) == IF i < 0 THEN -i ELSE i

RECURSIVE Gcd(_, _)
Gcd(a, b) == IF b = 0 THEN a ELSE Gcd(b, a % b)

NaN == [kind |-> "num", n |-> 0, d |-> 0]
Zoo == [kind |-> "num", n |-> 1, d |-> 0]

\* The rational n/d in lowest terms; anything over zero is nan or zoo.
Rat(n, d) ==
    IF d = 0 THEN (IF n = 0 THEN NaN ELSE Zoo)
    ELSE LET g == Gcd(Abs(n), Abs(d))
             sg == IF d < 0 THEN -1 ELSE 1
         IN  [kind |-> "num", n |-> sg * (n \div g), d |-> sg * (d \div g)]

Int2Num(i) == Rat(i, 1)

IsNaN(a) == a = NaN
IsZoo(a) == a = Zoo
IsFinite(a) == a.d # 0
IsZero(a) == a.d # 0 /\ a.n = 0

NumNeg(a) == IF IsFinite(a) THEN Rat(-a.n, a.d) ELSE a

NumAdd(a, b) ==
    CASE IsNaN(a) \/ IsNaN(b) -> NaN
      [] IsZoo(a) /\ IsZoo(b) -> NaN
      [] IsZoo(a) \/ IsZoo(b) -> Zoo
      [] OTHER -> Rat(a.n * b.d + b.n * a.d, a.d * b.d)

NumSub(a, b) == NumAdd(a, NumNeg(b))

NumMul(a, b) ==
    CASE IsNaN(a) \/ IsNaN(b) -> NaN
      [] IsZoo(a) -> IF IsZero(b) THEN NaN ELSE Zoo
      [] IsZoo(b) -> IF IsZero(a) THEN NaN ELSE Zoo
      [] OTHER ->
           \* cross-cancel before multiplying
           LET g1 == Gcd(Abs(a.n), b.d)
               g2 == Gcd(Abs(b.n), a.d)
               h1 == IF g1 = 0 THEN 1 ELSE g1
               h2 == IF g2 = 0 THEN 1 ELSE g2
           IN  Rat((a.n \div h1) * (b.n \div h2), (a.d \div h2) * (b.d \div h1))

NumInv(a) ==
    CASE IsNaN(a) -> NaN
      [] IsZoo(a) -> Int2Num(0)
      [] OTHER -> Rat(a.d, a.n)

NumDiv(a, b) == NumMul(a, NumInv(b))

IsInteger(a) == a.d = 1

RECURSIVE NumPowNat(_, _)
NumPowNat(a, k) == IF k = 0 THEN Int2Num(1) ELSE NumMul(a, NumPowNat(a, k - 1))

\* a ** e for an integer exponent e; x ** 0 is 1 for every x.
NumPow(a, e) ==
    IF e.n >= 0 THEN NumPowNat(a, e.n) ELSE NumInv(NumPowNat(a, -e.n))

-----------------------------------------------------------------------------
(* Values                                                                  *)

None == [kind |-> "none"]
EmptyList == [kind |-> "list"]
Sym(name) == [kind |-> "sym", name |-> name]
Str(name) == [kind |-> "str", name |-> name]
Node(k, args) == [kind |-> k, args |-> args]
Raise(e) == [kind |-> "error", err |-> e]

IsNode(v) == v.kind \in {"Add", "Mul", "Pow"}
IsError(v) == v.kind = "error"
IsQuantity(v) == v.kind = "quantity"
IsUnit(v) == v.kind = "unit"
\* isinstance(v, (Number, numbers.Real)): zoo (ComplexInfinity) is no Number.
IsNumber(v) == v.kind = "num" /\ v # Zoo

\* unit or 1
UnitOr1(unit) ==
    IF unit.kind = "none" \/ (unit.kind = "num" /\ IsZero(unit))
    THEN Int2Num(1) ELSE unit

-----------------------------------------------------------------------------
(* Unit layer: a dimension vector and a scale factor                       *)

UnitNew(dim, factor) == [kind |-> "unit", dim |-> dim, factor |-> factor]

\* Unit(base, factor=f): the base unit scaled by f.
UnitScaled(base, f) == UnitNew(base.dim, NumMul(base.factor, f))

UnitMul(u, v) ==
    UnitNew([i \in DOMAIN u.dim |-> u.dim[i] + v.dim[i]], NumMul(u.factor, v.factor))

UnitDiv(u, v) ==
    UnitNew([i \in DOMAIN u.dim |-> u.dim[i] - v.dim[i]], NumDiv(u.factor, v.factor))

UnitPow(u, e) ==
    IF IsNumber(e) /\ IsInteger(e)
    THEN UnitNew([i \in DOMAIN u.dim |-> u.dim[i] * e.n], NumPow(u.factor, e))
    ELSE Node("Pow", <<u, e>>)

is_compatible(u, v) == IsUnit(v) /\ u.dim = v.dim

-----------------------------------------------------------------------------
(* Expression engine: numeric evaluation and ordinary arithmetic           *)

RECURSIVE EvalfArgs(_)
RECURSIVE evalf(_)

AllNumbers(args) == \A i \in DOMAIN args : args[i].kind = "num"

RECURSIVE SumOf(_)
SumOf(args) == IF args = <<>> THEN Int2Num(0) ELSE NumAdd(Head(args), SumOf(Tail(args)))

RECURSIVE ProductOf(_)
ProductOf(args) ==
    IF args = <<>> THEN Int2Num(1) ELSE NumMul(Head(args), ProductOf(Tail(args)))

EvalfArgs(args) == [i \in DOMAIN args |-> evalf(args[i])]

\* arg.evalf(): a node whose arguments all evaluate to numbers becomes that
\* number; a Quantity, a Unit and a Symbol evaluate to themselves.
evalf(e) ==
    IF IsNode(e)
    THEN LET a == EvalfArgs(e.args)
         IN  IF ~AllNumbers(a) THEN Node(e.kind, a)
             ELSE CASE e.kind = "Add" -> SumOf(a)
                    [] e.kind = "Mul" -> ProductOf(a)
                    [] e.kind = "Pow" ->
                         IF IsInteger(a[2]) THEN NumPow(a[1], a[2]) ELSE Node("Pow", a)
    ELSE e

\* x + y, x * y and x ** y of the engine on operands that are no lists.
ExprAdd(x, y) ==
    IF x.kind = "num" /\ y.kind = "num" THEN NumAdd(x, y) ELSE Node("Add", <<x, y>>)

ExprMul(x, y) ==
    IF x.kind = "num" /\ y.kind = "num" THEN NumMul(x, y) ELSE Node("Mul", <<x, y>>)

ExprPow(x, y) ==
    IF x.kind = "num" /\ y.kind = "num" /\ IsInteger(y)
    THEN NumPow(x, y) ELSE Node("Pow", <<x, y>>)

-----------------------------------------------------------------------------
(* Quantity                                                                *)

RECURSIVE Quantity(_, _)
RECURSIVE qsimplify(_)
RECURSIVE ReduceAdd(_, _)
RECURSIVE ReduceMul(_, _)
RECURSIVE ReducePlus(_, _)
RECURSIVE ReduceRedmul(_, _)
RECURSIVE ReduceInOrder(_, _)

\* Quantity.as_unit
as_unit(q) == UnitScaled(q.unit, q.factor)

\* Unit.as_quantity: the unit as the Quantity of factor 1
as_quantity(u) == Quantity(Int2Num(1), u)

\* Expr.__new__(cls, factor, unit) with obj.factor, obj.unit set
NewObject(factor, unit) == [kind |-> "quantity", factor |-> factor, unit |-> unit]

\* The unit of __new__ without the test that it is a Unit
ResolveUnitUnchecked(factor, simplified) ==
    IF IsError(simplified) THEN simplified
    ELSE IF IsQuantity(simplified) THEN NewObject(factor, as_unit(simplified))
    ELSE NewObject(factor, simplified)

\* Quantity.__new__ from the simplified unit on: a Quantity gives its unit
\* view, and what is no Unit then is refused.
ResolveUnit(factor, simplified) ==
    IF IsError(simplified) THEN simplified
    ELSE IF IsQuantity(simplified) THEN NewObject(factor, as_unit(simplified))
    ELSE IF ~IsUnit(simplified) THEN Raise("TypeKind")
    ELSE NewObject(factor, simplified)

\* Whether __new__ returns a number instead of a Quantity; never, here
NeverCollapses(factor, unit) == FALSE

\* Whether __new__ returns a number instead of a Quantity
Collapses(factor, unit) == (unit.kind = "none" \/ IsNumber(unit)) /\ IsNumber(factor)

\* Quantity.__new__(factor, unit)
Quantity(factor, unit) ==
    IF Collapses(factor, unit) THEN NumMul(factor, UnitOr1(unit))
    ELSE IF IsNumber(factor) THEN ResolveUnit(factor, qsimplify(unit))
    ELSE Raise("NotImplementedKind")

\* Quantity.__neg__
neg(q) == Quantity(NumNeg(q.factor), q.unit)

\* The conversion without the compatibility test
RescaleUnchecked(q, target) ==
    Quantity(NumDiv(NumMul(q.factor, q.unit.factor), target.factor), target)

\* The conversion that keeps the factor as it is
RescaleUnscaled(q, target) ==
    IF is_compatible(q.unit, target) = FALSE THEN Raise("ValueKind")
    ELSE Quantity(q.factor, target)

\* Quantity.convert_to once the target is a unit: the compatibility test and
\* the rescaled Quantity.
Rescale(q, target) ==
    IF is_compatible(q.unit, target) = FALSE THEN Raise("ValueKind")
    ELSE Quantity(NumDiv(NumMul(q.factor, q.unit.factor), target.factor), target)

\* Quantity.convert_to from the simplified target on; a target that is no
\* Unit has neither dim nor factor.
ConvertInto(q, simplified) ==
    IF IsError(simplified) THEN simplified
    ELSE IF IsQuantity(simplified) THEN Rescale(q, as_unit(simplified))
    ELSE IF ~IsUnit(simplified) THEN Raise("AttributeKind")
    ELSE Rescale(q, simplified)

\* Quantity.convert_to(unit)
convert_to(q, unit) == ConvertInto(q, qsimplify(unit))

\* The sum that takes the other factor as it is
AddUnconverted(q, o) ==
    IF IsQuantity(o) THEN Quantity(NumAdd(q.factor, o.factor), q.unit)
    ELSE Raise("TypeKind")

\* Quantity.add from the converted operand on; an exception of the
\* conversion propagates.
AddConverted(q, converted) ==
    IF IsError(converted) THEN converted
    ELSE Quantity(NumAdd(q.factor, converted.factor), q.unit)

\* Quantity.sub from the converted operand on
SubConverted(q, converted) ==
    IF IsError(converted) THEN converted
    ELSE Quantity(NumSub(q.factor, converted.factor), q.unit)

\* Quantity.add(other)
add(q, o) ==
    IF IsQuantity(o) THEN AddConverted(q, convert_to(o, q.unit)) ELSE Raise("TypeKind")

\* Quantity.sub(other)
sub(q, o) ==
    IF IsQuantity(o) THEN SubConverted(q, convert_to(o, q.unit)) ELSE Raise("TypeKind")

\* Quantity.mul(other)
mul(q, o) ==
    IF IsQuantity(o) THEN Quantity(NumMul(q.factor, o.factor), UnitMul(q.unit, o.unit))
    ELSE IF IsNumber(o) THEN Quantity(NumMul(q.factor, o), q.unit)
    ELSE Node("Mul", <<q, o>>)

\* Quantity.div that keeps the unit of self
DivKeepsUnit(q, o) ==
    IF IsQuantity(o) THEN Quantity(NumDiv(q.factor, o.factor), q.unit)
    ELSE IF IsNumber(o) THEN Quantity(NumDiv(q.factor, o), q.unit)
    ELSE Node("Mul", <<q, Node("Pow", <<o, Int2Num(-1)>>)>>)

\* Quantity.div(other)
div(q, o) ==
    IF IsQuantity(o) THEN Quantity(NumDiv(q.factor, o.factor), UnitDiv(q.unit, o.unit))
    ELSE IF IsNumber(o) THEN Quantity(NumDiv(q.factor, o), q.unit)
    ELSE Node("Mul", <<q, Node("Pow", <<o, Int2Num(-1)>>)>>)

\* Quantity.rdiv(other)
rdiv(q, o) ==
    IF IsQuantity(o) THEN Quantity(NumDiv(o.factor, q.factor), UnitDiv(o.unit, q.unit))
    ELSE IF IsNumber(o) THEN Quantity(NumDiv(o, q.factor), UnitPow(q.unit, Int2Num(-1)))
    ELSE Node("Mul", <<Node("Pow", <<q, Int2Num(-1)>>), o>>)

\* Quantity.pow(other)
pow(q, o) ==
    IF IsNumber(o)
    THEN Quantity(evalf(ExprPow(q.factor, o)), UnitPow(q.unit, o))
    ELSE Node("Pow", <<q, o>>)

-----------------------------------------------------------------------------
(* qsimplify                                                               *)

\* redmul(x, y) of qsimplify; [] * y is no product
redmul(x, y) ==
    IF IsQuantity(x) THEN mul(x, y)
    ELSE IF IsQuantity(y) THEN mul(y, x)
    ELSE IF x.kind = "list" THEN Raise("TypeKind")
    ELSE ExprMul(x, y)

\* lambda x, y: x + y; [] + y is no sum
plus(x, y) == IF x.kind = "list" THEN Raise("TypeKind") ELSE ExprAdd(x, y)

\* reduce(lambda x, y: x.add(y), q_args) from the accumulator x on
ReduceAdd(x, ys) ==
    IF ys = <<>> \/ IsError(x) THEN x ELSE ReduceAdd(add(x, Head(ys)), Tail(ys))

\* reduce(lambda x, y: x.mul(y), q_args) from the accumulator x on
ReduceMul(x, ys) ==
    IF ys = <<>> \/ IsError(x) THEN x ELSE ReduceMul(mul(x, Head(ys)), Tail(ys))

\* reduce(lambda x, y: x + y, o_args, x)
ReducePlus(x, ys) ==
    IF ys = <<>> \/ IsError(x) THEN x ELSE ReducePlus(plus(x, Head(ys)), Tail(ys))

\* reduce(redmul, o_args, x)
ReduceRedmul(x, ys) ==
    IF ys = <<>> \/ IsError(x) THEN x ELSE ReduceRedmul(redmul(x, Head(ys)), Tail(ys))

\* The product folded in the order of the arguments, a number met before
\* the first quantity left unsimplified
ReduceInOrder(acc, ys) ==
    IF ys = <<>> \/ IsError(acc) THEN acc
    ELSE IF IsQuantity(acc)
    THEN ReduceInOrder(mul(acc, IF IsUnit(Head(ys)) THEN as_quantity(Head(ys)) ELSE Head(ys)),
                       Tail(ys))
    ELSE ReduceInOrder(ExprMul(acc, Head(ys)), Tail(ys))

\* An argument of the first loop once evaluated: a node is simplified.
ProcessArg(arg) == IF IsNode(arg) THEN qsimplify(arg) ELSE arg

\* The first loop: each argument evaluated, a node among them simplified.
ProcessArgs(args) == [i \in DOMAIN args |-> ProcessArg(evalf(args[i]))]

IsQArg(arg) == IsQuantity(arg) \/ IsUnit(arg)
IsOArg(arg) == ~IsQArg(arg)

\* q_args.append(arg) and q_args.append(arg.as_quantity)
AsQArg(arg) == IF IsUnit(arg) THEN as_quantity(arg) ELSE arg

\* The quantities among the arguments, a unit among them as a quantity
QArgsOf(sel) == [i \in DOMAIN sel |-> AsQArg(sel[i])]

\* The second loop: the quantities, a unit among them as a quantity.
q_args(args) == QArgsOf(SelectSeq(args, IsQArg))

\* The second loop: everything else.
o_args(args) == SelectSeq(args, IsOArg)

\* The exceptions raised while the arguments are processed, the first first.
ErrorsIn(args) == SelectSeq(args, IsError)

\* isinstance(expr, Pow): args[0].pow(args[1])
CombinePow(args) ==
    IF IsQuantity(args[1]) THEN pow(args[1], args[2])
    ELSE IF IsUnit(args[1]) THEN UnitPow(args[1], args[2])
    ELSE ExprPow(args[1], args[2])

\* The quantities folded with add, or the empty list
SumOfQuantities(qs) == IF qs # <<>> THEN ReduceAdd(Head(qs), Tail(qs)) ELSE EmptyList

\* The quantities folded with mul, or the empty list
ProductOfQuantities(qs) == IF qs # <<>> THEN ReduceMul(Head(qs), Tail(qs)) ELSE EmptyList

\* The sum that folds the quantities after the first one only
CombineAddDropsFirst(args) ==
    ReducePlus(SumOfQuantities(SubSeq(q_args(args), 2, Len(q_args(args)))), o_args(args))

\* isinstance(expr, Add)
CombineAdd(args) == ReducePlus(SumOfQuantities(q_args(args)), o_args(args))

\* The product folded in the order of the arguments
CombineMulInOrder(args) == ReduceInOrder(AsQArg(Head(args)), Tail(args))

\* isinstance(expr, Mul)
CombineMul(args) == ReduceRedmul(ProductOfQuantities(q_args(args)), o_args(args))

\* The branch of qsimplify for the kind of node, on the processed arguments
CombineArgs(kind, args) ==
    IF ErrorsIn(args) # <<>> THEN Head(ErrorsIn(args))
    ELSE CASE kind = "Pow" -> CombinePow(args)
           [] kind = "Add" -> CombineAdd(args)
           [] kind = "Mul" -> CombineMul(args)

\* Quantity.qsimplify(expr)
qsimplify(expr) ==
    IF ~IsNode(expr) THEN expr ELSE CombineArgs(expr.kind, ProcessArgs(expr.args))

-----------------------------------------------------------------------------
(* The client's inputs                                                     *)

\* SI units: metre, kilometre (the metre under the kilo prefix) and second.
m == UnitNew(<<1, 0>>, Int2Num(1))
km == UnitNew(<<1, 0>>, Int2Num(1000))
s == UnitNew(<<0, 1>>, Int2Num(1))

x == Sym("x")

FactorInputs == {Int2Num(5), Int2Num(0), x, Str("5")}

QuantityInputs ==
    {Quantity(Int2Num(3), m), Quantity(Int2Num(3), km), Quantity(Int2Num(1), s),
     Quantity(Int2Num(0), m)}

UnitInputs ==
    {None, Int2Num(1), Int2Num(0), Int2Num(2), m, km, s, x, Node("Mul", <<m, s>>),
     Quantity(Int2Num(3), km), Quantity(Int2Num(0), m)}

OperandInputs == {Int2Num(2), Int2Num(0), x} \cup QuantityInputs

ExponentInputs == {Int2Num(2), Int2Num(-1), Int2Num(0), x}

TargetInputs == {m, km, s, Quantity(Int2Num(3), km), Quantity(Int2Num(0), m), x}

Leaves ==
    {Int2Num(2), Int2Num(0), x, m, s,
     Quantity(Int2Num(2), m), Quantity(Int2Num(3), m), Quantity(Int2Num(3), km),
     Quantity(Int2Num(1), s)}

\* The leaves of the nodes of three arguments and of the nodes built on an
\* earlier result.
FewLeaves ==
    {Int2Num(2), x, m, Quantity(Int2Num(2), m), Quantity(Int2Num(3), km),
     Quantity(Int2Num(1), s)}

NestedInputs ==
    {Node("Mul", <<Int2Num(2), Quantity(Int2Num(2), m)>>),
     Node("Add", <<Quantity(Int2Num(2), m), Quantity(Int2Num(3), km)>>),
     Node("Mul", <<Int2Num(2), Int2Num(2)>>),
     Node("Add", <<x, Int2Num(2)>>),
     Node("Pow", <<m, Int2Num(2)>>)}

\* Sum and product nodes of two and of three arguments, power nodes, and
\* nodes holding one nested node.
ExprsOver(leaves, nested) ==
    {Node(k, <<a, b>>) : k \in {"Add", "Mul"}, a \in leaves, b \in leaves}
    \cup {Node(k, <<a, b, c>>) : k \in {"Add", "Mul"},
                                 a \in FewLeaves, b \in FewLeaves, c \in FewLeaves}
    \cup {Node("Pow", <<a, e>>) : a \in leaves, e \in ExponentInputs \ {Int2Num(0)}}
    \cup {Node(k, <<a, b>>) : k \in {"Add", "Mul"}, a \in nested, b \in leaves}
    \cup {Node(k, <<a, b>>) : k \in {"Add", "Mul"}, a \in leaves, b \in nested}

\* Nodes that hold the value v of an earlier call.
ExprsWith(v) ==
    {Node(k, <<v, b>>) : k \in {"Add", "Mul"}, b \in FewLeaves}
    \cup {Node(k, <<a, v>>) : k \in {"Add", "Mul"}, a \in FewLeaves}
    \cup {Node("Pow", <<v, e>>) : e \in ExponentInputs}

RECURSIVE MaxOf(_)
MaxOf(seq) ==
    IF seq = <<>> THEN 0
    ELSE LET t == MaxOf(Tail(seq)) IN IF Head(seq) > t THEN Head(seq) ELSE t

RECURSIVE Mag(_)
Mag(v) ==
    CASE v.kind = "num" -> IF Abs(v.n) > v.d THEN Abs(v.n) ELSE v.d
      [] v.kind = "unit" -> MaxOf(<<Abs(v.dim[1]), Abs(v.dim[2]), Mag(v.factor)>>)
      [] v.kind = "quantity" -> MaxOf(<<Mag(v.factor), Mag(v.unit)>>)
      [] IsNode(v) -> MaxOf([i \in DOMAIN v.args |-> Mag(v.args[i])])
      [] OTHER -> 0

\* A value of an earlier call that a later call may take as an argument.
Usable(v) == v.kind \in {"num", "unit", "quantity", "Add", "Mul", "Pow"} /\ Mag(v) <= MaxMag

Derived == IF Usable(result) THEN {result} ELSE {}

\* A chain of calls starts on the client's own inputs; the calls that follow
\* take the latest result as an argument.
Fresh(inputs) == IF steps = 0 THEN inputs ELSE {}

\* The Quantity a method is called on.
Selves == {q \in Fresh(QuantityInputs) \cup Derived : IsQuantity(q)}

-----------------------------------------------------------------------------
(* The calls                                                               *)

Init ==
    /\ op = "init"
    /\ self = None
    /\ other = None
    /\ result = None
    /\ steps = 0

Call(name, slf, oth, res) ==
    /\ steps < MaxSteps
    /\ op' = name
    /\ self' = slf
    /\ other' = oth
    /\ result' = res
    /\ steps' = steps + 1

CallConstruct ==
    \E f \in FactorInputs, u \in Fresh(UnitInputs) \cup Derived :
        Call("construct", f, u, Quantity(f, u))

CallNeg ==
    \E q \in Selves : Call("neg", q, None, neg(q))

CallAdd ==
    \E q \in Selves, o \in OperandInputs \cup Derived : Call("add", q, o, add(q, o))

CallSub ==
    \E q \in Selves, o \in OperandInputs \cup Derived : Call("sub", q, o, sub(q, o))

CallMul ==
    \E q \in Selves, o \in OperandInputs \cup Derived : Call("mul", q, o, mul(q, o))

CallDiv ==
    \E q \in Selves, o \in OperandInputs \cup Derived : Call("div", q, o, div(q, o))

CallRdiv ==
    \E q \in Selves, o \in OperandInputs \cup Derived : Call("rdiv", q, o, rdiv(q, o))

CallPow ==
    \E q \in Selves, e \in ExponentInputs : Call("pow", q, e, pow(q, e))

CallConvertTo ==
    \E q \in Selves :
        \E u \in TargetInputs \cup Derived \cup {q.unit} :
            Call("convert_to", q, u, convert_to(q, u))

CallQsimplify ==
    \E expr \in Fresh(Leaves \cup ExprsOver(Leaves, NestedInputs))
                \cup UNION {ExprsWith(v) : v \in Derived} :
        Call("qsimplify", None, expr, qsimplify(expr))

Next ==
    \/ CallConstruct
    \/ CallNeg
    \/ CallAdd
    \/ CallSub
    \/ CallMul
    \/ CallDiv
    \/ CallRdiv
    \/ CallPow
    \/ CallConvertTo
    \/ CallQsimplify

Spec == Init /\ [][Next]_vars

-----------------------------------------------------------------------------
(* Properties                                                              *)

Nonzero(a) == IsFinite(a) /\ a.n # 0

Absent(unit) == unit.kind = "none"

\* The unit a conversion target stands for.
TargetUnit(u) == IF IsQuantity(u) THEN as_unit(u) ELSE u

RECURSIVE QuantitiesValid(_)
\* Every Quantity in the value v, v itself or an argument of a node, has a Unit.
QuantitiesValid(v) ==
    CASE IsQuantity(v) -> IsUnit(v.unit) /\ IsNumber(v.factor)
      [] IsNode(v) -> \A i \in DOMAIN v.args : QuantitiesValid(v.args[i])
      [] OTHER -> TRUE

\* C1: constructing with a numeric factor and a unit that is absent or a plain
\* number yields the plain scalar factor * (unit or 1) and never a Quantity;
\* construct(5, None) and construct(5, 1) are the scalar 5.
C1_ScalarCollapse ==
    (op = "construct" /\ IsNumber(self) /\ (Absent(other) \/ IsNumber(other)))
        => /\ result.kind = "num"
           /\ result = IF Absent(other) \/ IsZero(other) THEN self ELSE NumMul(self, other)
           /\ (self = Int2Num(5) /\ (Absent(other) \/ other = Int2Num(1))) => result = Int2Num(5)

C1_Witness ==
    /\ op = "construct"
    /\ self = Int2Num(5)
    /\ Absent(other)
    /\ result = Int2Num(5)

\* C2: every Quantity that exists after any sequence of calls has a Unit as
\* its unit; a construction whose resolved unit is no Unit fails with TypeKind,
\* and a construction without a unit yields a bare number.
C2_UnitAlwaysValid ==
    /\ QuantitiesValid(result) /\ QuantitiesValid(self) /\ QuantitiesValid(other)
    /\ (op = "construct" /\ IsNumber(self) /\ ~Absent(other) /\ ~IsNumber(other))
         => LET simplified == qsimplify(other)
            IN  /\ (~IsError(simplified) /\ ~IsUnit(simplified) /\ ~IsQuantity(simplified))
                     => result = Raise("TypeKind")
                /\ IsQuantity(result) => IsUnit(simplified) \/ IsQuantity(simplified)
    /\ (op = "construct" /\ IsNumber(self) /\ Absent(other)) => result.kind = "num"

C2_Witness ==
    /\ op = "construct"
    /\ self = Int2Num(5)
    /\ other = x
    /\ result = Raise("TypeKind")

\* C3: converting a Quantity to a unit that is not compatible with its own
\* fails with ValueKind, also when the target is given as a Quantity.
C3_IncompatibleConversionFails ==
    (op = "convert_to" /\ (IsUnit(other) \/ IsQuantity(other))
        /\ self.unit.dim # TargetUnit(other).dim)
        => result = Raise("ValueKind")

C3_Witness ==
    /\ op = "convert_to"
    /\ IsQuantity(other)
    /\ self.unit.dim # other.unit.dim
    /\ result = Raise("ValueKind")

\* What C4 says of the conversion of q to the compatible unit T with result r.
ConvertsTo(q, T, r) ==
    /\ IsQuantity(r)
    /\ r.unit = T
    /\ r.factor = NumDiv(NumMul(q.factor, q.unit.factor), T.factor)
    /\ T = q.unit => r.factor = q.factor

\* C4 as stated: for every Quantity q and compatible target unit T the
\* conversion returns the Quantity of unit T and factor
\* q.factor * q.unit.factor / T.factor, the conversion to q's own unit keeping
\* the factor.
C4_Original ==
    (op = "convert_to" /\ IsUnit(other) /\ self.unit.dim = other.dim)
        => ConvertsTo(self, other, result)

\* C4 as amended: the same, for a target unit whose factor is a nonzero finite
\* number and a Quantity whose unit has a factor that is not infinite;
\* Quantity(5, km).convert_to(m) has the factor 5000.
C4_ConversionRescales ==
    /\ (op = "convert_to" /\ IsUnit(other) /\ self.unit.dim = other.dim
          /\ Nonzero(other.factor) /\ ~IsZoo(self.unit.factor))
         => ConvertsTo(self, other, result)
    /\ (op = "convert_to" /\ self = Quantity(Int2Num(5), km) /\ other = m)
         => result.factor = Int2Num(5000)

C4_Witness ==
    /\ op = "convert_to"
    /\ self = Quantity(Int2Num(5), km)
    /\ other = m
    /\ result = Quantity(Int2Num(5000), m)

\* q.add(r) and r.add(q), both converted to r's unit, have the same factor.
CommutesUnder(q, r, qr) ==
    LET rq == add(r, q)
    IN  /\ IsQuantity(qr)
        /\ IsQuantity(rq)
        /\ LET a == convert_to(qr, r.unit)
               b == convert_to(rq, r.unit)
           IN  IsQuantity(a) /\ IsQuantity(b) /\ a.factor = b.factor

\* C5 as stated: for all Quantities q and r with compatible units, q.add(r)
\* and r.add(q) converted to r's unit have the same factor.
C5_Original ==
    (op = "add" /\ IsQuantity(other) /\ self.unit.dim = other.unit.dim)
        => CommutesUnder(self, other, result)

\* C5 as amended: the same, for q and r whose units have factors that are
\* nonzero finite numbers.
C5_AddCommutes ==
    (op = "add" /\ IsQuantity(other) /\ self.unit.dim = other.unit.dim
        /\ Nonzero(self.unit.factor) /\ Nonzero(other.unit.factor))
        => CommutesUnder(self, other, result)

C5_Witness ==
    /\ op = "add"
    /\ self = Quantity(Int2Num(3), m)
    /\ other = Quantity(Int2Num(3), km)
    /\ result = Quantity(Int2Num(3003), m)
    /\ convert_to(result, km).factor = Rat(3003, 1000)

\* C6 as stated: for all Quantities q and r, q.mul(r).div(r) is q, whatever
\* the factor of r.
C6_Original ==
    (op = "mul" /\ IsQuantity(other))
        => IsQuantity(result) /\ div(result, other) = self

\* C6 as amended: q.mul(r).div(r) is q for every r whose factor and whose
\* unit's factor are nonzero finite numbers.
C6_MulDivRoundTrip ==
    (op = "mul" /\ IsQuantity(other) /\ Nonzero(other.factor) /\ Nonzero(other.unit.factor))
        => IsQuantity(result) /\ div(result, other) = self

C6_Witness ==
    /\ op = "div"
    /\ IsQuantity(other)
    /\ IsQuantity(result)
    /\ result # self
    /\ Nonzero(other.factor)
    /\ self = mul(result, other)

RECURSIVE Plain(_)
\* No Quantity and no Unit among the leaves of the expression.
Plain(e) ==
    CASE e.kind \in {"num", "sym"} -> TRUE
      [] IsNode(e) -> \A i \in DOMAIN e.args : Plain(e.args[i])
      [] OTHER -> FALSE

RECURSIVE OrdinaryFold(_, _, _)
\* The ordinary sum or product of the plain arguments, left to right.
OrdinaryFold(kind, acc, ys) ==
    IF ys = <<>> THEN acc
    ELSE OrdinaryFold(kind,
                      IF kind = "Add" THEN ExprAdd(acc, Head(ys)) ELSE ExprMul(acc, Head(ys)),
                      Tail(ys))

\* C7: on an expression without Quantity and Unit leaves qsimplify returns,
\* without an error, the expression: a leaf as it is, a sum or product as the
\* ordinary fold of its plain arguments, a power as the ordinary power.
C7_IdentityOnPlain ==
    (op = "qsimplify" /\ Plain(other))
        => /\ ~IsError(result)
           /\ ~IsNode(other) => result = other
           /\ (IsNode(other) /\ other.kind # "Pow")
                => LET args == EvalfArgs(other.args)
                   IN  result = OrdinaryFold(other.kind, Head(args), Tail(args))
           /\ (IsNode(other) /\ other.kind = "Pow")
                => result = ExprPow(evalf(other.args[1]), evalf(other.args[2]))

AllQuantities(args) == \A i \in DOMAIN args : IsQuantity(args[i])

Bijections(n) == {p \in [1..n -> 1..n] : \A i, j \in 1..n : p[i] = p[j] => i = j}

Permuted(args, p) == [i \in DOMAIN args |-> args[p[i]]]

RECURSIVE SumIn(_, _)
\* The factors of the quantities, each converted to the unit U, added up.
SumIn(U, qs) ==
    IF qs = <<>> THEN Int2Num(0)
    ELSE NumAdd(NumDiv(NumMul(Head(qs).factor, Head(qs).unit.factor), U.factor),
                SumIn(U, Tail(qs)))

\* What C8 says of the sum of the quantities args with result r.
SumsUp(args, r) ==
    IF \A i \in DOMAIN args : args[i].unit.dim = args[1].unit.dim
    THEN /\ IsQuantity(r)
         /\ r.unit = args[1].unit
         /\ r.factor = SumIn(args[1].unit, args)
    ELSE /\ r = Raise("ValueKind")
         /\ \A p \in Bijections(Len(args)) :
                qsimplify(Node("Add", Permuted(args, p))) = Raise("ValueKind")

\* C8 as stated: the sum of Quantities of pairwise compatible units simplifies
\* to the one Quantity of the summed converted factors, and a sum holding two
\* incompatible units fails with ValueKind in every order of its arguments.
C8_Original ==
    (op = "qsimplify" /\ other.kind = "Add" /\ AllQuantities(other.args))
        => SumsUp(other.args, result)

\* C8 as amended: the same, for Quantities whose units have factors that are
\* nonzero finite numbers; Quantity(2, m) + Quantity(3, m) is Quantity(5, m).
C8_SumOfQuantities ==
    /\ (op = "qsimplify" /\ other.kind = "Add" /\ AllQuantities(other.args)
          /\ \A i \in DOMAIN other.args : Nonzero(other.args[i].unit.factor))
         => SumsUp(other.args, result)
    /\ (op = "qsimplify"
          /\ other = Node("Add", <<Quantity(Int2Num(2), m), Quantity(Int2Num(3), m)>>))
         => result = Quantity(Int2Num(5), m)

C8_Witness ==
    /\ op = "qsimplify"
    /\ other = Node("Add", <<Quantity(Int2Num(2), m), Quantity(Int2Num(3), km),
                             Quantity(Int2Num(1), s)>>)
    /\ result = Raise("ValueKind")

\* The node with every Unit argument replaced by the Quantity of factor 1.
Promoted(e) ==
    Node(e.kind, [i \in DOMAIN e.args |->
                     IF IsUnit(e.args[i]) THEN as_quantity(e.args[i]) ELSE e.args[i]])

\* C9: a Unit that is an argument of a sum, product or power node is promoted
\* to the Quantity of factor 1 before the node is combined: the node simplifies
\* as the node of the promoted arguments does, a power of a Unit by
\* Quantity's pow.
C9_UnitsPromoted ==
    (op = "qsimplify" /\ IsNode(other) /\ \E i \in DOMAIN other.args : IsUnit(other.args[i]))
        => /\ result = qsimplify(Promoted(other))
           /\ (other.kind = "Pow" /\ IsUnit(other.args[1]))
                => result = pow(as_quantity(other.args[1]), other.args[2])

RECURSIVE FactorOf(_)
\* The product of the quantity factors and the plain numbers.
FactorOf(args) ==
    IF args = <<>> THEN Int2Num(1)
    ELSE NumMul(CASE IsQuantity(Head(args)) -> Head(args).factor
                  [] IsUnit(Head(args)) -> Int2Num(1)
                  [] OTHER -> Head(args),
                FactorOf(Tail(args)))

RECURSIVE UnitOf(_)
\* The units of the quantity-bearing arguments multiplied together.
UnitOf(qs) ==
    IF Len(qs) = 1 THEN Head(qs) ELSE UnitMul(Head(qs), UnitOf(Tail(qs)))

UnitsIn(args) ==
    LET sel == SelectSeq(args, IsQArg)
    IN  [i \in DOMAIN sel |-> IF IsUnit(sel[i]) THEN sel[i] ELSE sel[i].unit]

\* C10: a product of quantity-bearing arguments, at least one, and plain
\* numbers simplifies, in every order of its arguments, to the Quantity of the
\* product of all factors and numbers and of the product of the units.
C10_ProductOrderIndependent ==
    (op = "qsimplify" /\ other.kind = "Mul"
        /\ (\A i \in DOMAIN other.args : IsQArg(other.args[i]) \/ IsNumber(other.args[i]))
        /\ (\E i \in DOMAIN other.args : IsQArg(other.args[i])))
        => /\ result = Quantity(FactorOf(other.args), UnitOf(UnitsIn(other.args)))
           /\ \A p \in Bijections(Len(other.args)) :
                  qsimplify(Node("Mul", Permuted(other.args, p))) = result

C10_Witness ==
    /\ op = "qsimplify"
    /\ other = Node("Mul", <<Int2Num(2), Quantity(Int2Num(2), m)>>)
    /\ result = Quantity(Int2Num(4), m)

====
